---- MODULE Spec2Model ----
(***************************************************************************)
(* Model of the socket.io chat namespace "/socketio-chat" of rs-httpbin    *)
(* (src/src/socket_io_chat.rs): the shared UserCnt, the per-socket         *)
(* Username extension and the handlers registered by on_connect.           *)
(*                                                                         *)
(* Every handler is a sequence of steps, one per statement that reads or   *)
(* writes shared state (the extension map, the atomic counter, the         *)
(* namespace's sockets).  Handlers are plain closures run by the task that *)
(* received the packet, so handlers of different sockets, and handlers of  *)
(* one socket whose packets arrive on different requests, interleave at    *)
(* statement granularity.                                                  *)
(***************************************************************************)
EXTENDS Integers, Sequences, FiniteSets, TLC

\* ------------------------------------------------------------- bounds
\* Number of client connections of the namespace.
NumSock == 3
\* What the clients do over the whole run: connects, inbound events
\* ("add user", "new message", "typing", "stop typing", malformed packets)
\* and disconnects.
MaxOps == 5
\* Width of the modelled usize, in bits.
UsizeBits == 4
\* Direct calls of add_user / remove_user on one UserCnt (SpecCounter).
MaxCalls == 8

Sock == 1..NumSock
\* The runtime's worker threads: each runs one handler at a time, to
\* completion (the handlers are synchronous closures).
Worker == {"w1", "w2"}
Names == {"alice", "bob"}
Msgs == {"hi"}
\* extensions.get::<Username>() == None
NoUser == "<none>"
Modulus == 2 ^ UsizeBits

VARIABLES
    conn,        \* socket lifecycle: "none" (not connected yet), "live", "closed"
    extensions,  \* s.extensions: the Username of each socket, or NoUser
    user_cnt,    \* UserCnt: the shared AtomicUsize
    task,        \* the handler invocation each worker is running
    inbox,       \* events delivered to each client, in order
    ops,         \* inbound events processed so far
    started,     \* history: well-formed "add user" events received per socket
    raced,       \* history: an "add user" of the socket arrived while another
                 \* "add user" handler of the same socket was in progress
    overlapped,  \* history: an "add user" arrived while an "add user" handler of
                 \* any socket was in progress
    inc,         \* history: add_user() calls per socket
    dec,         \* history: remove_user() calls per socket
    recv,        \* history: the last inbound event dispatched
    wv,          \* a WithValidation extraction (axum_garde), see SpecValidation
    uc           \* direct calls of a UserCnt, see SpecCounter

\* The variables of the chat namespace.
chat == <<conn, extensions, user_cnt, task, inbox, ops, started, raced, overlapped,
          inc, dec, recv>>
\* The variables of the two stand-alone units.
units == <<wv, uc>>
vars == <<chat, units>>

\* ------------------------------------------------------------ payloads
\* enum Res; "from" records the socket whose handler emitted the event.
Login(from, n) == [ev |-> "login", from |-> from, numUsers |-> n]
UserEvent(ev, from, n, u) == [ev |-> ev, from |-> from, numUsers |-> n, username |-> u]
Message(from, u, m) == [ev |-> "new message", from |-> from, username |-> u, message |-> m]
UsernameRes(ev, from, u) == [ev |-> ev, from |-> from, username |-> u]

\* ------------------------------------------------------------- UserCnt
\* Variant: a decrement that saturates at zero.
fetch_sub_saturating(c) == IF c = 0 THEN 0 ELSE c - 1
\* AtomicUsize::fetch_add / fetch_sub: the stored value wraps.
fetch_add(c) == (c + 1) % Modulus
fetch_sub(c) == (c + Modulus - 1) % Modulus
\* Variant: add_user returning what fetch_add returns, without the + 1.
add_user_prev(c) == c
\* Variant: remove_user returning what fetch_sub returns, without the - 1.
remove_user_prev(c) == c
\* add_user: fetch_add(1) + 1; fetch_add returns the previous value c.
add_user(c) == (c + 1) % Modulus
\* remove_user: fetch_sub(1) - 1; fetch_sub returns the previous value c.
remove_user(c) == (c + Modulus - 1) % Modulus

\* --------------------------------------------------------- Broadcaster
\* The handlers only call s.emit(..) and s.broadcast().emit(..) and drop the
\* Result with .ok(); whom an emit reaches is decided by the library.  It is
\* modelled as the specification describes it: a reply goes to the sender,
\* a broadcast to the others; delivery goes over the connections that are
\* live at the time of the call; a recipient that cannot be delivered to
\* does not keep the event from the other recipients, and the failure is
\* not propagated.
\* The sockets that have joined the namespace.
InNamespace == {s \in Sock : conn[s] # "none"}
\* s.emit(..): addressed to s itself.
EmitSelfTo(s) == {s}
\* Variant: an emit to the whole namespace, the sender included.
BroadcastToAll(s) == InNamespace
\* s.broadcast().emit(..): addressed to every socket of the namespace except s.
BroadcastTo(s) == InNamespace \ {s}
\* The addressed sockets whose connection is closed: the emit to them fails.
Failed(to) == {r \in to : conn[r] # "live"}
\* The event is delivered to every addressed socket the emit does not fail
\* for; the failures are what the emit returns, which .ok() drops.
Deliver(to, e) ==
    [r \in Sock |-> IF r \in to \ Failed(to) THEN Append(inbox[r], e) ELSE inbox[r]]

\* ------------------------------------------------------------- tasks
Idle == [pc |-> "idle", sock |-> 0, username |-> NoUser, message |-> "", num_users |-> 0]
JoinPcs == {"add", "insert", "login", "joined"}
\* A new invocation runs on the first free worker.
FreeWorker(w) ==
    /\ task[w].pc = "idle"
    /\ w = "w2" => task["w1"].pc # "idle"
\* Worker w is running an "add user" handler of socket s.
Joining(s) == \E w \in Worker : task[w].sock = s /\ task[w].pc \in JoinPcs
CanReceive(s) == conn[s] = "live" /\ ops < MaxOps
\* The names a client's "add user" may carry.  The handlers never compare
\* names, so the name of a socket's first "add user" is fixed (alternating
\* over the sockets); a repeated "add user" carries any name.
UsernameOf(s) == IF s % 2 = 1 THEN "alice" ELSE "bob"
AddUserNames(s) == IF started[s] = 0 THEN {UsernameOf(s)} ELSE Names

\* No inbound event yet.
NoRecv == [ev |-> "none", sock |-> 0, malformed |-> FALSE]
\* The stand-alone units are not exercised by the chat namespace.
NoCall == [pc |-> "none"]
NoCount == [pc |-> "none"]

\* io.ns("/socketio-chat", ..) with UserCnt::new(): no socket, counter 0.
InitChat ==
    /\ conn = [s \in Sock |-> "none"]
    /\ extensions = [s \in Sock |-> NoUser]
    /\ user_cnt = 0
    /\ task = [w \in Worker |-> Idle]
    /\ inbox = [s \in Sock |-> <<>>]
    /\ ops = 0
    /\ started = [s \in Sock |-> 0]
    /\ raced = [s \in Sock |-> FALSE]
    /\ overlapped = FALSE
    /\ inc = [s \in Sock |-> 0]
    /\ dec = [s \in Sock |-> 0]
    /\ recv = NoRecv

Init ==
    /\ InitChat
    /\ wv = NoCall
    /\ uc = NoCount

\* io.ns("/socketio-chat", on_connect): a client connects; its socket joins
\* the namespace with an empty extension map.  Sockets are numbered in the
\* order they connect.
Connect(s) ==
    /\ conn[s] = "none"
    /\ \A r \in Sock : r < s => conn[r] # "none"
    /\ ops < MaxOps
    /\ conn' = [conn EXCEPT ![s] = "live"]
    /\ ops' = ops + 1
    /\ recv' = [ev |-> "connect", sock |-> s, malformed |-> FALSE]
    /\ UNCHANGED <<units, extensions, user_cnt, task, inbox, started, raced, overlapped, inc, dec>>

\* Variant: the "add user" handler without its guard.
AddUserCheckNoGuard(w, s, name) ==
    /\ conn[s] = "live" /\ ops < MaxOps
    /\ task[w].pc = "idle"
    /\ w = "w2" => task["w1"].pc # "idle"
    /\ task' = [task EXCEPT ![w] = [pc |-> "add", sock |-> s, username |-> name,
                                    message |-> "", num_users |-> 0]]
    /\ ops' = ops + 1
    /\ started' = [started EXCEPT ![s] = @ + 1]
    /\ raced' = [raced EXCEPT ![s] =
                    @ \/ \E v \in Worker : task[v].sock = s
                                          /\ task[v].pc \in {"add", "insert", "login", "joined"}]
    /\ overlapped' = (overlapped \/ \E v \in Worker :
                                       task[v].pc \in {"add", "insert", "login", "joined"})
    /\ recv' = [ev |-> "add user", sock |-> s, malformed |-> FALSE]
    /\ UNCHANGED <<units, conn, extensions, user_cnt, inbox, inc, dec>>

\* ------------------------------------------------ "add user" handler
\* s.on("add user", ..): the packet arrives and the handler runs its guard:
\*     if s.extensions.get::<Username>().is_some() { return; }
AddUserCheck(w, s, name) ==
    /\ CanReceive(s)
    /\ FreeWorker(w)
    /\ task' = [task EXCEPT ![w] =
                   IF extensions[s] # NoUser THEN Idle
                   ELSE [Idle EXCEPT !.pc = "add", !.sock = s, !.username = name]]
    /\ ops' = ops + 1
    /\ started' = [started EXCEPT ![s] = @ + 1]
    /\ raced' = [raced EXCEPT ![s] = @ \/ Joining(s)]
    /\ overlapped' = (overlapped \/ \E r \in Sock : Joining(r))
    /\ recv' = [ev |-> "add user", sock |-> s, malformed |-> FALSE]
    /\ UNCHANGED <<units, conn, extensions, user_cnt, inbox, inc, dec>>

\* let num_users = user_cnt.add_user();
AddUserAdd(w) ==
    /\ task[w].pc = "add"
    /\ user_cnt' = fetch_add(user_cnt)
    /\ task' = [task EXCEPT ![w].pc = "insert", ![w].num_users = add_user(user_cnt)]
    /\ inc' = [inc EXCEPT ![task[w].sock] = @ + 1]
    /\ UNCHANGED <<units, recv, conn, extensions, inbox, ops, started, raced, overlapped, dec>>

\* Variant: one Username slot shared by all sockets.
AddUserInsertShared(w) ==
    /\ task[w].pc = "insert"
    /\ extensions' = [s \in Sock |-> task[w].username]
    /\ task' = [task EXCEPT ![w].pc = "login"]
    /\ UNCHANGED <<units, recv, conn, user_cnt, inbox, ops, started, raced, overlapped, inc, dec>>

\* s.extensions.insert(Username(username.clone()));
AddUserInsert(w) ==
    /\ task[w].pc = "insert"
    /\ extensions' = [extensions EXCEPT ![task[w].sock] = task[w].username]
    /\ task' = [task EXCEPT ![w].pc = "login"]
    /\ UNCHANGED <<units, recv, conn, user_cnt, inbox, ops, started, raced, overlapped, inc, dec>>

\* Variant: the "login" reply sent with s.broadcast() instead of s.emit.
AddUserLoginBroadcast(w) ==
    /\ task[w].pc = "login"
    /\ inbox' = Deliver(BroadcastTo(task[w].sock), Login(task[w].sock, task[w].num_users))
    /\ task' = [task EXCEPT ![w].pc = "joined"]
    /\ UNCHANGED <<units, recv, conn, extensions, user_cnt, ops, started, raced, overlapped, inc, dec>>

\* Variant: the handler returns when the "login" emit fails.
AddUserLoginOrReturn(w) ==
    /\ task[w].pc = "login"
    /\ inbox' = Deliver(EmitSelfTo(task[w].sock), Login(task[w].sock, task[w].num_users))
    /\ task' = [task EXCEPT ![w] =
                   IF Failed(EmitSelfTo(task[w].sock)) # {} THEN Idle
                   ELSE [task[w] EXCEPT !.pc = "joined"]]
    /\ UNCHANGED <<units, recv, conn, extensions, user_cnt, ops, started, raced, overlapped, inc, dec>>

\* s.emit("login", &Res::Login { num_users }).ok();
AddUserLogin(w) ==
    /\ task[w].pc = "login"
    /\ inbox' = Deliver(EmitSelfTo(task[w].sock), Login(task[w].sock, task[w].num_users))
    /\ task' = [task EXCEPT ![w].pc = "joined"]
    /\ UNCHANGED <<units, recv, conn, extensions, user_cnt, ops, started, raced, overlapped, inc, dec>>

\* Variant: "user joined" emitted to the whole namespace.
AddUserJoinedToAll(w) ==
    /\ task[w].pc = "joined"
    /\ inbox' = Deliver(BroadcastToAll(task[w].sock), UserEvent("user joined", task[w].sock,
                                        task[w].num_users, task[w].username))
    /\ task' = [task EXCEPT ![w] = Idle]
    /\ UNCHANGED <<units, recv, conn, extensions, user_cnt, ops, started, raced, overlapped, inc, dec>>

\* s.broadcast().emit("user joined", res).ok();
AddUserJoined(w) ==
    /\ task[w].pc = "joined"
    /\ inbox' = Deliver(BroadcastTo(task[w].sock),
                        UserEvent("user joined", task[w].sock,
                                  task[w].num_users, task[w].username))
    /\ task' = [task EXCEPT ![w] = Idle]
    /\ UNCHANGED <<units, recv, conn, extensions, user_cnt, ops, started, raced, overlapped, inc, dec>>

\* Variant: "new message" with an optional identity; the handler is called
\* whether or not the socket holds a Username.
NewMessageNoExtractor(w, s, msg) ==
    /\ conn[s] = "live" /\ ops < MaxOps
    /\ task[w].pc = "idle"
    /\ w = "w2" => task["w1"].pc # "idle"
    /\ ops' = ops + 1
    /\ task' = [task EXCEPT ![w] =
                   [pc |-> "new message", sock |-> s, username |-> extensions[s],
                    message |-> msg, num_users |-> 0]]
    /\ recv' = [ev |-> "new message", sock |-> s, malformed |-> FALSE]
    /\ UNCHANGED <<units, conn, extensions, user_cnt, inbox, started, raced, overlapped, inc, dec>>

\* ------------------------------------- "new message", "typing", "stop typing"
\* The Extension::<Username> extractor clones the socket's Username and the
\* handler is called with it; on a socket without a Username the extractor
\* fails and the handler is not called.
NewMessage(w, s, msg) ==
    /\ CanReceive(s)
    /\ FreeWorker(w)
    /\ ops' = ops + 1
    /\ task' = [task EXCEPT ![w] =
                   IF extensions[s] = NoUser THEN Idle
                   ELSE [Idle EXCEPT !.pc = "new message", !.sock = s,
                                     !.username = extensions[s], !.message = msg]]
    /\ recv' = [ev |-> "new message", sock |-> s, malformed |-> FALSE]
    /\ UNCHANGED <<units, conn, extensions, user_cnt, inbox, started, raced, overlapped, inc, dec>>

\* Variant: "new message" emitted to the whole namespace.
NewMessageEmitToAll(w) ==
    /\ task[w].pc = "new message"
    /\ inbox' = Deliver(BroadcastToAll(task[w].sock), Message(task[w].sock, task[w].username, task[w].message))
    /\ task' = [task EXCEPT ![w] = Idle]
    /\ UNCHANGED <<units, recv, conn, extensions, user_cnt, ops, started, raced, overlapped, inc, dec>>

\* s.broadcast().emit("new message", msg).ok();
NewMessageEmit(w) ==
    /\ task[w].pc = "new message"
    /\ inbox' = Deliver(BroadcastTo(task[w].sock),
                        Message(task[w].sock, task[w].username, task[w].message))
    /\ task' = [task EXCEPT ![w] = Idle]
    /\ UNCHANGED <<units, recv, conn, extensions, user_cnt, ops, started, raced, overlapped, inc, dec>>

Typing(w, s) ==
    /\ CanReceive(s)
    /\ FreeWorker(w)
    /\ ops' = ops + 1
    /\ task' = [task EXCEPT ![w] =
                   IF extensions[s] = NoUser THEN Idle
                   ELSE [Idle EXCEPT !.pc = "typing", !.sock = s,
                                     !.username = extensions[s]]]
    /\ recv' = [ev |-> "typing", sock |-> s, malformed |-> FALSE]
    /\ UNCHANGED <<units, conn, extensions, user_cnt, inbox, started, raced, overlapped, inc, dec>>

\* s.broadcast().emit("typing", &Res::Username { username }).ok();
TypingEmit(w) ==
    /\ task[w].pc = "typing"
    /\ inbox' = Deliver(BroadcastTo(task[w].sock),
                        UsernameRes("typing", task[w].sock, task[w].username))
    /\ task' = [task EXCEPT ![w] = Idle]
    /\ UNCHANGED <<units, recv, conn, extensions, user_cnt, ops, started, raced, overlapped, inc, dec>>

StopTyping(w, s) ==
    /\ CanReceive(s)
    /\ FreeWorker(w)
    /\ ops' = ops + 1
    /\ task' = [task EXCEPT ![w] =
                   IF extensions[s] = NoUser THEN Idle
                   ELSE [Idle EXCEPT !.pc = "stop typing", !.sock = s,
                                     !.username = extensions[s]]]
    /\ recv' = [ev |-> "stop typing", sock |-> s, malformed |-> FALSE]
    /\ UNCHANGED <<units, conn, extensions, user_cnt, inbox, started, raced, overlapped, inc, dec>>

\* s.broadcast().emit("stop typing", &Res::Username { username }).ok();
StopTypingEmit(w) ==
    /\ task[w].pc = "stop typing"
    /\ inbox' = Deliver(BroadcastTo(task[w].sock),
                        UsernameRes("stop typing", task[w].sock, task[w].username))
    /\ task' = [task EXCEPT ![w] = Idle]
    /\ UNCHANGED <<units, recv, conn, extensions, user_cnt, ops, started, raced, overlapped, inc, dec>>

\* Variant: a disconnect handler that runs whether or not the socket holds
\* a Username.
DisconnectNoExtractor(w) ==
    /\ task[w].pc = "disconnect"
    /\ task' = [task EXCEPT ![w].pc = "remove",
                            ![w].username = extensions[task[w].sock]]
    /\ UNCHANGED <<units, recv, conn, extensions, user_cnt, inbox, ops, started, raced, overlapped, inc, dec>>

\* Variant: a payload that is not a string is handed to the handler as an
\* empty string.
MalformedAsEmpty(w, s, ev) ==
    /\ conn[s] = "live" /\ ops < MaxOps
    /\ task[w].pc = "idle"
    /\ w = "w2" => task["w1"].pc # "idle"
    /\ ops' = ops + 1
    /\ recv' = [ev |-> ev, sock |-> s, malformed |-> TRUE]
    /\ task' = [task EXCEPT ![w] =
                   [pc |-> IF ev = "add user" THEN "add" ELSE "new message",
                    sock |-> s,
                    username |-> IF ev = "add user" THEN "" ELSE extensions[s],
                    message |-> "", num_users |-> 0]]
    /\ UNCHANGED <<units, conn, extensions, user_cnt, inbox,
                   started, raced, overlapped, inc, dec>>

\* ------------------------------------------------- malformed payloads
\* An "add user" or "new message" packet whose payload is not a single
\* string: the Data::<String> extractor fails and the handler is not called.
MalformedEvents == {"add user", "new message"}
Malformed(w, s, ev) ==
    /\ CanReceive(s)
    /\ FreeWorker(w)
    /\ ops' = ops + 1
    /\ recv' = [ev |-> ev, sock |-> s, malformed |-> TRUE]
    /\ UNCHANGED <<units, conn, extensions, user_cnt, task, inbox,
                   started, raced, overlapped, inc, dec>>

\* ------------------------------------------------------ on_disconnect
\* The socket closes (once) and leaves the namespace: it receives nothing
\* and sends nothing from here on.  Its disconnect handler is dispatched.
Disconnect(w, s) ==
    /\ CanReceive(s)
    /\ FreeWorker(w)
    /\ conn' = [conn EXCEPT ![s] = "closed"]
    /\ task' = [task EXCEPT ![w] = [Idle EXCEPT !.pc = "disconnect", !.sock = s]]
    /\ ops' = ops + 1
    /\ recv' = [ev |-> "disconnect", sock |-> s, malformed |-> FALSE]
    /\ UNCHANGED <<units, extensions, user_cnt, inbox, started, raced, overlapped, inc, dec>>

\* s.on_disconnect(|s, user_cnt, Extension::<Username>(username)| ..): the
\* extractor clones the socket's Username and the handler is called with it;
\* on a socket without a Username the extractor fails and the handler is not
\* called.
DisconnectExtract(w) ==
    /\ task[w].pc = "disconnect"
    /\ task' = [task EXCEPT ![w] =
                   IF extensions[task[w].sock] = NoUser THEN Idle
                   ELSE [task[w] EXCEPT !.pc = "remove",
                                        !.username = extensions[task[w].sock]]]
    /\ UNCHANGED <<units, recv, conn, extensions, user_cnt, inbox, ops, started, raced, overlapped, inc, dec>>

\* let num_users = user_cnt.remove_user();
DisconnectRemove(w) ==
    /\ task[w].pc = "remove"
    /\ user_cnt' = fetch_sub(user_cnt)
    /\ dec' = [dec EXCEPT ![task[w].sock] = @ + 1]
    /\ task' = [task EXCEPT ![w].pc = "left", ![w].num_users = remove_user(user_cnt)]
    /\ UNCHANGED <<units, recv, conn, extensions, inbox, ops, started, raced, overlapped, inc>>

\* s.broadcast().emit("user left", res).ok();
DisconnectLeft(w) ==
    /\ task[w].pc = "left"
    /\ inbox' = Deliver(BroadcastTo(task[w].sock),
                        UserEvent("user left", task[w].sock,
                                  task[w].num_users, task[w].username))
    /\ task' = [task EXCEPT ![w] = Idle]
    /\ UNCHANGED <<units, recv, conn, extensions, user_cnt, ops, started, raced, overlapped, inc, dec>>

Next ==
    \/ \E s \in Sock : Connect(s)
    \/ \E w \in Worker :
        \/ \E s \in Sock :
            \/ \E name \in AddUserNames(s) : AddUserCheck(w, s, name)
            \/ \E msg \in Msgs : NewMessage(w, s, msg)
            \/ Typing(w, s)
            \/ StopTyping(w, s)
            \/ \E ev \in MalformedEvents : Malformed(w, s, ev)
            \/ Disconnect(w, s)
        \/ AddUserAdd(w)
        \/ AddUserInsert(w)
        \/ AddUserLogin(w)
        \/ AddUserJoined(w)
        \/ NewMessageEmit(w)
        \/ TypingEmit(w)
        \/ StopTypingEmit(w)
        \/ DisconnectExtract(w)
        \/ DisconnectRemove(w)
        \/ DisconnectLeft(w)

Spec == Init /\ [][Next]_vars

\* The handler takes any string as the name, the empty string included:
\* nothing between Data::<String>(username) and extensions.insert looks at it.
EmptyName == ""
AddUserEmpty(w, s) == AddUserCheck(w, s, EmptyName)

NextAnyName ==
    \/ Next
    \/ \E w \in Worker : \E s \in Sock : AddUserEmpty(w, s)

\* The chat namespace with clients that may also send an empty name.
SpecAnyName == Init /\ [][NextAnyName]_vars

\* ------------------------------------------ WithValidation (axum_garde)
\* WithValidation<Extractor> wraps an extractor and validates its payload
\* against a context taken from the router state.  The wrapped extractor is
\* given by what it returns; the Validate implementation of the payload is
\* given by the context, the set of payloads it accepts.
Payloads == {"", "alice", "bob"}
InnerRejections == {"BodyRejection", "HeaderRejection"}
Vias == {"from_request_parts", "from_request"}
\* What the wrapped extractor returns: Ok(Extractor(payload)) or Err(rejection).
ExtractorResults ==
    {[ok |-> TRUE, extractor |-> [inner |-> p]] : p \in Payloads}
    \cup {[ok |-> FALSE, rejection |-> r] : r \in InnerRejections}
\* The router states: each holds a validation context.
States == {[context |-> c] : c \in SUBSET Payloads}
\* The extractions: which impl is used, what the wrapped extractor returns
\* and the router state.
Calls ==
    {[pc |-> "extract", via |-> v, extracted |-> x, state |-> st, validations |-> 0]
        : v \in Vias, x \in ExtractorResults, st \in States}

\* WithValidationRejection::ExtractionError(rejection)
ExtractionError(r) == [variant |-> "ExtractionError", inner |-> r]
\* The rejection the ? operator makes of a garde report (From<Report>).
FromReport(report) == [variant |-> "Report", inner |-> report]
\* FromRef::from_ref(state)
from_ref(st) == st.context
\* value.into_inner()
into_inner(x) == x.inner
\* Variant: validate_with that accepts every payload.
validate_with_any(value, ctx) == [ok |-> TRUE, valid |-> value]
\* Unvalidated::new(value).validate_with(&ctx): Ok(Valid(value)) or Err(report)
validate_with(value, ctx) ==
    IF value \in ctx THEN [ok |-> TRUE, valid |-> value]
    ELSE [ok |-> FALSE, report |-> value]
\* Ok(WithValidation(value)) and Err(rejection)
OkWithValidation(value) == [ok |-> TRUE, value |-> value]
ErrRejection(r) == [ok |-> FALSE, rejection |-> r]

\* from_request_parts: Extractor::from_request_parts(parts, state).await
\*     .map_err(WithValidationRejection::ExtractionError)?
FromRequestPartsExtract ==
    /\ wv.pc = "extract" /\ wv.via = "from_request_parts"
    /\ wv' = IF wv.extracted.ok
             THEN [pc |-> "validate", via |-> wv.via, extracted |-> wv.extracted,
                   state |-> wv.state, validations |-> wv.validations,
                   value |-> wv.extracted.extractor]
             ELSE [pc |-> "done", via |-> wv.via, extracted |-> wv.extracted,
                   state |-> wv.state, validations |-> wv.validations,
                   result |-> ErrRejection(ExtractionError(wv.extracted.rejection))]
    /\ UNCHANGED <<chat, uc>>

\* from_request_parts: from_ref, into_inner, validate_with(&ctx)?,
\* Ok(WithValidation(value))
FromRequestPartsValidate ==
    /\ wv.pc = "validate" /\ wv.via = "from_request_parts"
    /\ LET ctx == from_ref(wv.state)
           value == into_inner(wv.value)
           checked == validate_with(value, ctx)
       IN  wv' = [pc |-> "done", via |-> wv.via, extracted |-> wv.extracted,
                  state |-> wv.state, validations |-> wv.validations + 1,
                  result |-> IF checked.ok THEN OkWithValidation(checked.valid)
                             ELSE ErrRejection(FromReport(checked.report))]
    /\ UNCHANGED <<chat, uc>>

\* from_request: Extractor::from_request(req, state).await
\*     .map_err(WithValidationRejection::ExtractionError)?
FromRequestExtract ==
    /\ wv.pc = "extract" /\ wv.via = "from_request"
    /\ wv' = IF wv.extracted.ok
             THEN [pc |-> "validate", via |-> wv.via, extracted |-> wv.extracted,
                   state |-> wv.state, validations |-> wv.validations,
                   value |-> wv.extracted.extractor]
             ELSE [pc |-> "done", via |-> wv.via, extracted |-> wv.extracted,
                   state |-> wv.state, validations |-> wv.validations,
                   result |-> ErrRejection(ExtractionError(wv.extracted.rejection))]
    /\ UNCHANGED <<chat, uc>>

\* from_request: from_ref, into_inner, validate_with(&ctx)?,
\* Ok(WithValidation(value))
FromRequestValidate ==
    /\ wv.pc = "validate" /\ wv.via = "from_request"
    /\ LET ctx == from_ref(wv.state)
           value == into_inner(wv.value)
           checked == validate_with(value, ctx)
       IN  wv' = [pc |-> "done", via |-> wv.via, extracted |-> wv.extracted,
                  state |-> wv.state, validations |-> wv.validations + 1,
                  result |-> IF checked.ok THEN OkWithValidation(checked.valid)
                             ELSE ErrRejection(FromReport(checked.report))]
    /\ UNCHANGED <<chat, uc>>

InitValidation ==
    /\ InitChat
    /\ wv \in Calls
    /\ uc = NoCount

NextValidation ==
    \/ FromRequestPartsExtract
    \/ FromRequestPartsValidate
    \/ FromRequestExtract
    \/ FromRequestValidate

\* One WithValidation extraction, for every impl, extractor result and state.
SpecValidation == InitValidation /\ [][NextValidation]_vars

\* ------------------------------------------------- UserCnt, on its own
\* add_user and remove_user called directly on a UserCnt::new().  The + 1
\* and - 1 on the usize that fetch_add / fetch_sub return overflow at the
\* ends of the range: the call panics in a build with overflow checks and
\* wraps in a build without; the atomic itself always wraps.
ReturnValue(v) == [panic |-> FALSE, value |-> v]
Panicked == [panic |-> TRUE]
NoReturn == [panic |-> FALSE]
InitCounter ==
    /\ InitChat
    /\ wv = NoCall
    /\ uc \in {[pc |-> "ready", overflow_checks |-> b, cnt |-> 0, calls |-> 0,
                last |-> "none", prev |-> 0, ret |-> NoReturn] : b \in BOOLEAN}

\* self.0.fetch_add(1, SeqCst) + 1
CallAddUser ==
    /\ uc.pc = "ready" /\ uc.calls < MaxCalls
    /\ uc' = [uc EXCEPT !.cnt = fetch_add(uc.cnt),
                        !.calls = @ + 1,
                        !.last = "add_user",
                        !.prev = uc.cnt,
                        !.ret = IF uc.cnt = Modulus - 1 /\ uc.overflow_checks
                                THEN Panicked
                                ELSE ReturnValue(add_user(uc.cnt))]
    /\ UNCHANGED <<chat, wv>>

\* self.0.fetch_sub(1, SeqCst) - 1
CallRemoveUser ==
    /\ uc.pc = "ready" /\ uc.calls < MaxCalls
    /\ uc' = [uc EXCEPT !.cnt = fetch_sub(uc.cnt),
                        !.calls = @ + 1,
                        !.last = "remove_user",
                        !.prev = uc.cnt,
                        !.ret = IF uc.cnt = 0 /\ uc.overflow_checks
                                THEN Panicked
                                ELSE ReturnValue(remove_user(uc.cnt))]
    /\ UNCHANGED <<chat, wv>>

NextCounter ==
    \/ CallAddUser
    \/ CallRemoveUser

\* A UserCnt under any sequence of at most MaxCalls calls.
SpecCounter == InitCounter /\ [][NextCounter]_vars

\* ============================================================ properties
AllIdle == \A w \in Worker : task[w].pc = "idle"
\* Connected sessions that hold a Username extension.
Named == {s \in Sock : conn[s] = "live" /\ extensions[s] # NoUser}
\* Sessions that hold a Username extension, connected or not.
Registered == {s \in Sock : extensions[s] # NoUser}
\* Events named ev that socket r received from a handler of socket from.
CountEv(r, ev, from) ==
    Cardinality({i \in DOMAIN inbox[r] : inbox[r][i].ev = ev /\ inbox[r][i].from = from})
\* The disconnect handler of s has decremented and not yet broadcast.
LeftPending(s) == \E w \in Worker : task[w].pc = "left" /\ task[w].sock = s
\* The disconnect handler of s is dispatched and has not decremented.
Leaving(s) == \E w \in Worker : task[w].pc \in {"disconnect", "remove"} /\ task[w].sock = s
\* What a broadcast by s of event e makes of the inboxes.
AfterBroadcast(s, e) ==
    [r \in Sock |-> IF conn[r] = "live" /\ r # s THEN Append(inbox[r], e) ELSE inbox[r]]

\* C1: whenever no handler is in progress, the counter equals the number of
\* connected sessions that hold a Username.
C1_CounterEqualsNamed == AllIdle => user_cnt = Cardinality(Named)

\* C2: a session whose "add user" events are processed one after another
\* increments the counter once and emits one "login" and one "user joined",
\* however many "add user" events it sends; the later ones change nothing.
C2_DuplicateJoinOnce ==
    \A s \in Sock :
        ~raced[s] =>
            /\ inc[s] <= 1
            /\ CountEv(s, "login", s) <= 1
            /\ \A r \in Sock : CountEv(r, "user joined", s) <= 1
            /\ (started[s] >= 1 /\ ~Joining(s)) =>
                   (inc[s] = 1 /\ extensions[s] = UsernameOf(s))
            /\ (started[s] >= 1 /\ ~Joining(s) /\ conn[s] = "live") =>
                   CountEv(s, "login", s) = 1

C2_Witness ==
    \E s, r \in Sock :
        /\ s # r /\ started[s] = 2 /\ ~raced[s] /\ ~Joining(s)
        /\ inc[s] = 1 /\ user_cnt = 1
        /\ CountEv(s, "login", s) = 1
        /\ CountEv(r, "user joined", s) = 1

\* C3: the disconnect handler of a session decrements the counter and
\* broadcasts "user left" if and only if its extractor finds a Username on
\* the session, at most once per session; the disconnect of a session
\* without Username decrements nothing and broadcasts nothing.
C3_State ==
    \A s \in Sock :
        /\ dec[s] <= 1
        /\ (dec[s] = 1 \/ Leaving(s)) => conn[s] = "closed"
        /\ ~(dec[s] = 1 /\ Leaving(s))
        /\ \A r \in Sock :
               CountEv(r, "user left", s) + (IF LeftPending(s) THEN 1 ELSE 0) <= dec[s]

C3_Step ==
    /\ \A s \in Sock :
           (conn[s] = "live" /\ conn'[s] = "closed") =>
               /\ Leaving(s)'
               /\ dec' = dec /\ user_cnt' = user_cnt /\ inbox' = inbox
    /\ \A s \in Sock :
           dec'[s] # dec[s] =>
               \E w \in Worker : task[w].pc = "remove" /\ task[w].sock = s
    /\ \A w \in Worker :
           LET s == task[w].sock
           IN  /\ (task[w].pc = "disconnect" /\ task'[w] # task[w]) =>
                      /\ IF extensions[s] # NoUser
                         THEN task'[w] = [task[w] EXCEPT !.pc = "remove",
                                                         !.username = extensions[s]]
                         ELSE task'[w] = Idle
                      /\ dec' = dec /\ user_cnt' = user_cnt /\ inbox' = inbox
               /\ (task[w].pc = "remove" /\ task'[w] # task[w]) =>
                      /\ task[w].username # NoUser
                      /\ dec'[s] = dec[s] + 1 /\ user_cnt' = user_cnt - 1
                      /\ LeftPending(s)'

C3_DisconnectDecrementsIffNamed == [](C3_State) /\ [][C3_Step]_vars

C3_Witness ==
    \E s, r \in Sock :
        /\ conn[s] = "closed" /\ extensions[s] = NoUser /\ dec[s] = 0
        /\ conn[r] = "live" /\ extensions[r] # NoUser /\ user_cnt = 1
        /\ AllIdle
        /\ \A i \in DOMAIN inbox[r] : inbox[r][i].ev # "user left"

\* C4: a "login" is delivered only to the socket whose handler emitted it;
\* every other event is never delivered to the socket that emitted it.
C4_AudienceSeparation ==
    \A r \in Sock : \A i \in DOMAIN inbox[r] :
        IF inbox[r][i].ev = "login" THEN inbox[r][i].from = r
        ELSE inbox[r][i].from # r

C4_Witness ==
    \E s, r \in Sock :
        /\ s # r
        /\ Len(inbox[s]) = 1 /\ inbox[s][1].ev = "login"
        /\ CountEv(r, "user joined", s) = 1
        /\ CountEv(r, "new message", s) = 1

\* C6: the counter is incremented at most once for one session, also when
\* two "add user" handlers of the session interleave.
C6_AtomicCheckAndSet == \A s \in Sock : inc[s] <= 1

\* C7: when every connection sends one "add user" and none disconnects, the
\* values add_user has returned are exactly 1..user_cnt, each to one
\* handler, whatever the interleaving; once all handlers are done every
\* joiner holds one "login" and the numUsers of the logins are those values.
NoLeave == \A s \in Sock : conn[s] # "closed"
OneJoinEach == \A s \in Sock : started[s] <= 1
LoginValues(s) ==
    {inbox[s][i].numUsers : i \in {j \in DOMAIN inbox[s] : inbox[s][j].ev = "login"}}
Returned ==
    {task[w].num_users : w \in {v \in Worker : task[v].pc \in {"insert", "login", "joined"}}}
    \cup UNION {LoginValues(s) : s \in Sock}

C7_NoLostUpdate ==
    (NoLeave /\ OneJoinEach) =>
        /\ user_cnt = Cardinality({s \in Sock : inc[s] = 1})
        /\ Returned = 1..user_cnt
        /\ \A s \in Sock : CountEv(s, "login", s) <= 1
        /\ \A s, r \in Sock : s # r => LoginValues(s) \cap LoginValues(r) = {}
        /\ AllIdle => \A s \in Sock : started[s] = 1 => CountEv(s, "login", s) = 1

C7_Witness ==
    \E s, r \in Sock :
        /\ s # r /\ NoLeave /\ OneJoinEach /\ AllIdle /\ user_cnt = 2
        /\ Len(inbox[s]) = 2
        /\ inbox[s][1] = UserEvent("user joined", r, 2, UsernameOf(r))
        /\ inbox[s][2] = Login(s, 1)

\* C8: while joins are processed one after another and nobody has left, the
\* joiner that makes k sessions registered gets "login" {numUsers: k}, and
\* its "user joined" {numUsers: k, username} goes to every other connected
\* socket and not to the joiner.
Sequential == ~overlapped /\ NoLeave

C8_Step ==
    \A w \in Worker :
        LET s == task[w].sock
            k == Cardinality(Registered)
            n == task[w].username
        IN  /\ (Sequential /\ task[w].pc = "login" /\ task'[w].pc = "joined") =>
                   /\ extensions[s] = n
                   /\ inbox' = [inbox EXCEPT ![s] = Append(@, Login(s, k))]
            /\ (Sequential /\ task[w].pc = "joined" /\ task'[w].pc = "idle") =>
                   inbox' = AfterBroadcast(s, UserEvent("user joined", s, k, n))

C8_SequentialJoins == [][C8_Step]_vars

C8_Witness ==
    /\ Sequential /\ AllIdle
    /\ inbox[1] = <<Login(1, 1), UserEvent("user joined", 2, 2, "bob")>>
    /\ inbox[2] = <<Login(2, 2)>>

\* C9: the "new message" handler of a session with Username u and text t
\* delivers one "new message" {username: u, message: t} to every other
\* connected socket and nothing to the sender.
C9_Step ==
    \A w \in Worker :
        /\ (task[w].pc = "idle" /\ task'[w].pc = "new message") =>
               /\ task'[w].username = extensions[task'[w].sock]
               /\ task'[w].username # NoUser
               /\ task'[w].message \in Msgs
               /\ inbox' = inbox
        /\ (task[w].pc = "new message" /\ task'[w] # task[w]) =>
               /\ task'[w].pc = "idle"
               /\ inbox' = AfterBroadcast(task[w].sock,
                              [ev |-> "new message", from |-> task[w].sock,
                               username |-> task[w].username,
                               message |-> task[w].message])

C9_NewMessageToOthers == [][C9_Step]_vars

C9_Witness ==
    /\ AllIdle
    /\ inbox[1] = <<Login(1, 1)>>
    /\ inbox[2] = <<UserEvent("user joined", 1, 1, "alice"), Message(1, "alice", "hi")>>

\* C10: the disconnect handler of a session with Username u (the name its
\* extractor read) takes c, the counter right after its own decrement, and
\* delivers "user left"
\* {numUsers: c, username: u} to every socket still connected.
C10_Step ==
    \A w \in Worker :
        /\ (task[w].pc = "disconnect" /\ task'[w].pc = "remove") =>
               /\ task'[w].username = extensions[task[w].sock]
               /\ task'[w].username # NoUser
        /\ (task[w].pc = "remove" /\ task'[w] # task[w]) =>
               /\ task'[w].pc = "left"
               /\ task'[w].username = task[w].username
               /\ task'[w].num_users = user_cnt - 1
               /\ user_cnt' = user_cnt - 1
        /\ (task[w].pc = "left" /\ task'[w] # task[w]) =>
               /\ task'[w].pc = "idle"
               /\ inbox' = AfterBroadcast(task[w].sock,
                              [ev |-> "user left", from |-> task[w].sock,
                               numUsers |-> task[w].num_users,
                               username |-> task[w].username])

C10_UserLeftCount == [][C10_Step]_vars

C10_Witness ==
    \E s, r \in Sock :
        /\ s # r /\ conn[s] = "closed" /\ conn[r] = "live" /\ user_cnt = 1
        /\ \E i \in DOMAIN inbox[r] :
               inbox[r][i] = UserEvent("user left", s, 1, UsernameOf(s))

\* The events of the chat handlers that take the sender's Username.
ChatEvents == {"new message", "typing", "stop typing"}
\* This step dispatches a well-formed chat event of a socket without Username.
AnonymousChat ==
    /\ ops' # ops
    /\ recv'.ev \in ChatEvents /\ ~recv'.malformed
    /\ extensions[recv'.sock] = NoUser

\* C11 (as stated): a "new message", "typing" or "stop typing" event of a
\* socket that holds no Username still runs its handler, which broadcasts
\* the event with an undefined identity.
C11_AnonymousChatBroadcast ==
    [][AnonymousChat =>
          \E w \in Worker : /\ task'[w].pc = recv'.ev
                            /\ task'[w].sock = recv'.sock]_vars

\* This step dispatches a well-formed chat event of a socket that holds a
\* Username.
NamedChat ==
    /\ ops' # ops
    /\ recv'.ev \in ChatEvents /\ ~recv'.malformed
    /\ extensions[recv'.sock] # NoUser

\* C11 (amended): a "new message", "typing" or "stop typing" event of a
\* socket that holds no Username is dropped: no handler runs and nothing is
\* emitted or changed.  The event of a socket that holds a Username starts
\* its handler with exactly the Username the socket holds, whatever string
\* that is, so every chat event in progress or delivered carries a Username
\* that a join stored.
C11_State ==
    /\ \A w \in Worker : task[w].pc \in ChatEvents => task[w].username # NoUser
    /\ \A r \in Sock : \A i \in DOMAIN inbox[r] :
           inbox[r][i].ev \in ChatEvents => inbox[r][i].username # NoUser

C11_Step ==
    /\ AnonymousChat =>
           /\ task' = task /\ inbox' = inbox
           /\ extensions' = extensions /\ user_cnt' = user_cnt
    /\ NamedChat =>
           \E w \in Worker :
               /\ task[w].pc = "idle"
               /\ task'[w].pc = recv'.ev /\ task'[w].sock = recv'.sock
               /\ task'[w].username = extensions[recv'.sock]
               /\ \A v \in Worker \ {w} : task'[v] = task[v]
    /\ \A w \in Worker :
           (task[w].pc \in ChatEvents /\ task'[w] # task[w]) =>
               /\ task'[w] = Idle
               /\ \A r \in Sock :
                      \/ inbox'[r] = inbox[r]
                      \/ /\ inbox'[r] = Append(inbox[r], inbox'[r][Len(inbox'[r])])
                         /\ inbox'[r][Len(inbox'[r])].ev = task[w].pc
                         /\ inbox'[r][Len(inbox'[r])].username = task[w].username

C11_AnonymousChatDropped == [](C11_State) /\ [][C11_Step]_vars

C11_Witness ==
    \E s, r \in Sock :
        /\ s # r /\ conn[s] = "live" /\ conn[r] = "live"
        /\ extensions[s] = NoUser /\ started[s] = 0
        /\ recv.sock = s /\ recv.ev \in ChatEvents /\ ~recv.malformed
        /\ extensions[r] # NoUser /\ AllIdle
        /\ Len(inbox[r]) = 1 /\ inbox[r][1].ev = "login"

\* C12: every stored identity is a non-empty string: an "add user" with an
\* empty name on a session without identity stores nothing.
C12_NonEmptyIdentity == \A s \in Sock : extensions[s] # EmptyName

\* C13: once a session holds a Username, no step changes it, whatever
\* "add user" events the session sends afterwards.
C13_IdentityImmutable ==
    [][\A s \in Sock : extensions[s] # NoUser => extensions'[s] = extensions[s]]_vars

\* C14: an "add user" or "new message" event whose payload is not a single
\* string runs no handler: no task starts, the identities and the counter
\* are unchanged, nothing is delivered to any socket (the sender included)
\* and the sender stays connected.
C14_Step ==
    (ops' # ops /\ recv'.malformed) =>
        /\ recv'.ev \in MalformedEvents
        /\ task' = task
        /\ extensions' = extensions /\ user_cnt' = user_cnt
        /\ inc' = inc /\ dec' = dec
        /\ inbox' = inbox
        /\ conn' = conn

C14_MalformedIgnored == [][C14_Step]_vars

C14_Witness ==
    \E s, r \in Sock :
        /\ s # r /\ conn[s] = "live" /\ conn[r] = "live"
        /\ recv = [ev |-> "add user", sock |-> r, malformed |-> TRUE]
        /\ AllIdle /\ user_cnt = 1
        /\ extensions[s] = UsernameOf(s) /\ extensions[r] = NoUser
        /\ inbox[s] = <<Login(s, 1)>>
        /\ inbox[r] = <<UserEvent("user joined", s, 1, UsernameOf(s))>>

\* The steps that broadcast an event to the other sockets.
BroadcastPcs == {"joined", "new message", "typing", "stop typing", "left"}

\* C15: an emit that cannot be delivered neither stops the handler nor
\* undoes what it did.  When the "login" reply finds the joiner's socket
\* closed, nothing is delivered, the counter and the identities stay as they
\* are and the handler goes on to broadcast "user joined".  A broadcast that
\* cannot be delivered to one of the other sockets, because its connection
\* is closed, is still delivered to every other socket that is connected;
\* the handler ends normally and nothing is reported to the sender.
C15_Step ==
    \A w \in Worker :
        LET s == task[w].sock
        IN  /\ (task[w].pc = "login" /\ task'[w] # task[w]) =>
                   /\ task'[w] = [task[w] EXCEPT !.pc = "joined"]
                   /\ user_cnt' = user_cnt /\ extensions' = extensions
                   /\ conn' = conn
                   /\ conn[s] # "live" => inbox' = inbox
            /\ (task[w].pc = "joined" /\ task'[w] # task[w]) =>
                   inbox' = AfterBroadcast(s, UserEvent("user joined", s,
                                                 task[w].num_users, task[w].username))
            /\ (task[w].pc \in BroadcastPcs /\ task'[w] # task[w]) =>
                   /\ task'[w] = Idle
                   /\ user_cnt' = user_cnt /\ extensions' = extensions
                   /\ conn' = conn
                   /\ inbox'[s] = inbox[s]
                   /\ \A r \in Sock \ {s} :
                          IF conn[r] = "live"
                          THEN /\ Len(inbox'[r]) = Len(inbox[r]) + 1
                               /\ SubSeq(inbox'[r], 1, Len(inbox[r])) = inbox[r]
                               /\ inbox'[r][Len(inbox'[r])].from = s
                          ELSE inbox'[r] = inbox[r]

C15_EmitFailureIgnored == [][C15_Step]_vars

\* A "user joined" broadcast found one of the other sockets closed and one
\* connected: the connected one holds the event, the closed one does not.
C15_Witness ==
    \E s, r, q \in Sock :
        /\ r < s /\ q # s /\ q # r
        /\ conn[r] = "closed" /\ conn[q] = "live" /\ conn[s] = "live" /\ AllIdle
        /\ inc[s] = 1 /\ user_cnt = 1 /\ extensions[s] = UsernameOf(s)
        /\ inbox[s] = <<Login(s, 1)>>
        /\ inbox[r] = <<>>
        /\ inbox[q] = <<UserEvent("user joined", s, 1, UsernameOf(s))>>

\* C16: the counter changes only in the add_user step of an "add user"
\* handler that passed its guard (by +1) and in the remove_user step of the
\* disconnect handler of a session found to hold a Username (by -1); a session's Username changes only in the
\* insert step of an "add user" handler of that same session, which leaves
\* every other session's Username alone; no step of the "new message",
\* "typing" and "stop typing" handlers changes the counter or a Username.
C16_Step ==
    /\ user_cnt' # user_cnt =>
           \/ /\ \E w \in Worker : task[w].pc = "add" /\ task'[w].pc = "insert"
              /\ user_cnt' = (user_cnt + 1) % Modulus
           \/ /\ \E w \in Worker : /\ task[w].pc = "remove" /\ task'[w].pc = "left"
                                    /\ task[w].username # NoUser
                                    /\ conn[task[w].sock] = "closed"
              /\ user_cnt' = (user_cnt + Modulus - 1) % Modulus
    /\ \A s \in Sock :
           extensions'[s] # extensions[s] =>
               /\ \E w \in Worker : /\ task[w].pc = "insert" /\ task[w].sock = s
                                    /\ task'[w].pc = "login"
                                    /\ extensions'[s] = task[w].username
               /\ \A r \in Sock \ {s} : extensions'[r] = extensions[r]
    /\ \A s \in Sock :
           (conn'[s] # conn[s]) => extensions' = extensions
    /\ (\/ ops' # ops /\ recv'.ev \in ChatEvents
        \/ \E w \in Worker : task[w].pc \in ChatEvents /\ task'[w] # task[w]) =>
           user_cnt' = user_cnt /\ extensions' = extensions

C16_Frame == [][C16_Step]_vars

C16_Witness ==
    \E s, r \in Sock :
        /\ s # r /\ conn[s] = "closed" /\ conn[r] = "live" /\ AllIdle
        /\ extensions[s] = UsernameOf(s) /\ extensions[r] = UsernameOf(r)
        /\ extensions[s] # extensions[r]
        /\ inc[s] = 1 /\ inc[r] = 1 /\ dec[s] = 1 /\ user_cnt = 1
        /\ CountEv(r, "user left", s) = 1

\* C17: WithValidation returns Ok only when the wrapped extractor and the
\* validation both succeed.  When the extractor fails the result is
\* Err(ExtractionError(r)) with the extractor's rejection r and validate_with
\* is never called; when the extractor succeeds and the context from the
\* router state rejects the payload, the result is Err of the rejection made
\* of the report; otherwise it is Ok of the validated payload.  The result
\* does not depend on which of from_request and from_request_parts ran.
C17_TwoStages ==
    wv.pc = "done" =>
        LET x == wv.extracted
        IN  /\ ~x.ok =>
                   /\ wv.result = [ok |-> FALSE,
                                   rejection |-> [variant |-> "ExtractionError",
                                                  inner |-> x.rejection]]
                   /\ wv.validations = 0
            /\ (x.ok /\ x.extractor.inner \notin wv.state.context) =>
                   /\ wv.result = [ok |-> FALSE,
                                   rejection |-> [variant |-> "Report",
                                                  inner |-> x.extractor.inner]]
                   /\ wv.validations = 1
            /\ (x.ok /\ x.extractor.inner \in wv.state.context) =>
                   /\ wv.result = [ok |-> TRUE, value |-> x.extractor.inner]
                   /\ wv.validations = 1
            /\ wv.result.ok <=> (x.ok /\ x.extractor.inner \in wv.state.context)

C17_Witness ==
    /\ wv.pc = "done" /\ wv.via = "from_request"
    /\ wv.extracted.ok /\ wv.extracted.extractor.inner = ""
    /\ wv.state.context = {"alice", "bob"}
    /\ ~wv.result.ok /\ wv.result.rejection.variant = "Report"
    /\ wv.validations = 1

\* The last call was remove_user on a counter that held 0.
RemovedAtZero == uc.pc = "ready" /\ uc.last = "remove_user" /\ uc.prev = 0

\* C18 (as stated): remove_user on a counter that holds 0 does not fail,
\* returns -1 and leaves the counter at -1.
C18_DecrementBelowZero ==
    RemovedAtZero => (~uc.ret.panic /\ uc.ret.value = -1 /\ uc.cnt = -1)

\* C18 (amended): remove_user has no guard against zero, and the counter is
\* unsigned: on a counter that holds 0 the stored value wraps to the largest
\* usize, and the call panics in a build with overflow checks and returns
\* the largest usize in a build without; the counter is never negative.
C18_DecrementAtZeroWraps ==
    /\ uc.pc = "ready" => uc.cnt \in 0 .. (Modulus - 1)
    /\ RemovedAtZero =>
           /\ uc.cnt = Modulus - 1
           /\ IF uc.overflow_checks THEN uc.ret.panic
              ELSE ~uc.ret.panic /\ uc.ret.value = Modulus - 1

C18_Witness ==
    /\ RemovedAtZero /\ uc.calls = 3
    /\ ~uc.overflow_checks /\ uc.ret = [panic |-> FALSE, value |-> Modulus - 1]

\* C19: every increment a session made is matched by one decrement when the
\* session disconnects, so once no connection is left and no handler is in
\* progress the counter is 0.
C19_IncrementsMatched ==
    (AllIdle /\ \A s \in Sock : conn[s] # "live") =>
        /\ \A s \in Sock : dec[s] = inc[s]
        /\ user_cnt = 0

\* The events that carry numUsers.
CountEvents == {"login", "user joined", "user left"}
\* The positions of the count-carrying events in the inbox of socket r.
CountPositions(r) == {i \in DOMAIN inbox[r] : inbox[r][i].ev \in CountEvents}
\* The numUsers of the last count-carrying event delivered to socket r.
LastCount(r) ==
    LET last == CHOOSE i \in CountPositions(r) : \A j \in CountPositions(r) : j <= i
    IN  inbox[r][last].numUsers

\* C20: once no handler is in progress, the numUsers of the last
\* count-carrying event delivered to a connected socket equals the counter,
\* however the joins and disconnects were interleaved.
C20_CountConverges ==
    AllIdle =>
        \A r \in Sock :
            (conn[r] = "live" /\ CountPositions(r) # {}) => LastCount(r) = user_cnt

====
